---- MODULE Spec2Model ----
(***************************************************************************)
(* A model of the MoodCode backend (src/server.js): the OAuth2/PKCE        *)
(* authorization flow with its in-memory challenge store, and the          *)
(* mood -> search-terms planner.                                           *)
(*                                                                         *)
(* Node runs one handler at a time up to its next await, so every action   *)
(* below is one synchronous stretch of a handler: from the arrival of a    *)
(* request (or the settling of the promise it awaits) to the next await or *)
(* to the response.                                                        *)
(***************************************************************************)
EXTENDS Integers, Sequences, FiniteSets, TLC

(***************************************************************************)
(* Bounds of the model.                                                    *)
(***************************************************************************)
\* events from outside in one behaviour: requests received and clock steps
MaxEvents == 4
\* the latest Date.now() at which the planner is called
MaxPlannerClock == 5
\* the longest track pool handed to the diversity selector on its own
MaxPool == 3
\* the largest target count tried besides the default of 15
MaxTarget == 2

(***************************************************************************)
(* JavaScript values.  Undefined stands for the value undefined (an absent *)
(* field); it is not a string of the program.  A number that is absent is  *)
(* 0, which JavaScript treats as falsy like undefined.                     *)
(***************************************************************************)
Undefined == "<undefined>"

\* !v for a value that is undefined or a string
Falsy(v) == v = Undefined \/ v = ""

\* a || b for strings
OrElse(a, b) == IF Falsy(a) THEN b ELSE a

\* a || b for numbers (0 is the absent number)
OrElseNumber(a, b) == IF a = 0 THEN b ELSE a

Digits == <<"0", "1", "2", "3", "4", "5", "6", "7", "8", "9">>

\* String(n) for a natural number
RECURSIVE NumberToString(_)
NumberToString(n) == IF n < 10 THEN Digits[n + 1]
               ELSE NumberToString(n \div 10) \o Digits[(n % 10) + 1]

(***************************************************************************)
(* PKCE material.  crypto.randomBytes is a source that does not repeat:    *)
(* the n-th draw of the process is named by n.                             *)
(***************************************************************************)
generateCodeVerifier(n) == "verifier-" \o NumberToString(n)

\* SHA-256 then base64url: a fixed injective function of the verifier
generateCodeChallenge(verifier) == "S256(" \o verifier \o ")"

\* a source of states that repeats itself
generateStateRepeats(n) == "state-1"

generateState(n) == "state-" \o NumberToString(n)

\* 15 * 60 * 1000 milliseconds
FIFTEEN_MINUTES == 900000

\* how far the clock may move in one step (milliseconds)
ClockSteps == {FIFTEEN_MINUTES - 1, FIFTEEN_MINUTES, FIFTEEN_MINUTES + 1}

\* how far the clock may move between the two readings of Date.now() inside
\* one authorization-URL request (milliseconds): not at all, by a few
\* milliseconds, backwards, and, when the clock is set forward or the process
\* is suspended, by fifteen minutes and more
ClockTicks == {-1, 0, 1, 2, 3, FIFTEEN_MINUTES, FIFTEEN_MINUTES + 1}

(***************************************************************************)
(* The challenge store: a Map from state token to                          *)
(* {codeVerifier, codeChallenge, timestamp}, here a function whose domain  *)
(* is the set of keys.                                                     *)
(***************************************************************************)
PkceSet(store, key, value) ==
    [k \in (DOMAIN store) \cup {key} |-> IF k = key THEN value ELSE store[k]]

NoPkceData == [codeVerifier |-> Undefined, codeChallenge |-> Undefined, timestamp |-> 0]

\* pkceStore.get(key): the record, or undefined (NoPkceData) when absent
PkceGet(store, key) == IF key \in DOMAIN store THEN store[key] ELSE NoPkceData

\* a lookup whose miss goes unnoticed
PkceMissingNever(pkceData) == FALSE

\* !pkceData
PkceMissing(pkceData) == pkceData = NoPkceData

\* a delete that removes nothing
PkceDeleteNothing(store, key) == store

\* pkceStore.delete(key)
PkceDelete(store, key) == [k \in (DOMAIN store) \ {key} |-> store[k]]

\* a cleanup that compares with <=
cleanupAtFifteenMinutes(store, t) ==
    [k \in {j \in DOMAIN store : ~(store[j].timestamp <= t - FIFTEEN_MINUTES)} |-> store[k]]

\* cleanupExpiredPkce() run at Date.now() = t
cleanupExpiredPkce(store, t) ==
    [k \in {j \in DOMAIN store : ~(store[j].timestamp < t - FIFTEEN_MINUTES)} |-> store[k]]

(***************************************************************************)
(* Upstream (SoundCloud) replies.  An axios error carries the upstream     *)
(* response (status, data.error, data.error_description) when there is     *)
(* one, and always a message.                                              *)
(***************************************************************************)
AxiosError(status, err, description, message) ==
    [ok |-> FALSE, status |-> status, error |-> err,
     error_description |-> description, message |-> message,
     access_token |-> Undefined, refresh_token |-> Undefined, expires_in |-> 0,
     user |-> Undefined]

\* no error caught
NoError == AxiosError(0, Undefined, Undefined, Undefined)

\* replies of POST https://secure.soundcloud.com/oauth/token
TokenEndpointReplies(verifier) ==
    { [ok |-> TRUE, status |-> 200, error |-> Undefined,
       error_description |-> Undefined, message |-> Undefined,
       access_token |-> "access-of-" \o verifier,
       refresh_token |-> "refresh-of-" \o verifier, expires_in |-> 3600,
       user |-> Undefined],
      AxiosError(400, "invalid_grant", "The authorization code has expired",
                 "Request failed with status code 400"),
      AxiosError(400, "invalid_grant", Undefined,
                 "Request failed with status code 400"),
      AxiosError(401, "invalid_client", "Unknown client",
                 "Request failed with status code 401"),
      AxiosError(0, Undefined, Undefined, "timeout of 15000ms exceeded") }

\* replies of GET https://api.soundcloud.com/me
MeEndpointReplies(token) ==
    { [ok |-> TRUE, status |-> 200, error |-> Undefined,
       error_description |-> Undefined, message |-> Undefined,
       access_token |-> Undefined, refresh_token |-> Undefined, expires_in |-> 0,
       user |-> "user-of-" \o token],
      AxiosError(401, Undefined, Undefined,
                 "Request failed with status code 401") }

(***************************************************************************)
(* Responses of POST /auth/soundcloud/token.                               *)
(***************************************************************************)
NoResponse ==
    [status |-> 0, error |-> Undefined, details |-> Undefined,
     access_token |-> Undefined, refresh_token |-> Undefined, expires_in |-> 0,
     user |-> Undefined]

ErrorResponse(status, err, details) ==
    [NoResponse EXCEPT !.status = status, !.error = err, !.details = details]

ValidationError == ErrorResponse(400, "Authorization code and state are required", Undefined)

StateError == ErrorResponse(400, "State parameter already used or expired", Undefined)

\* !code && !state
MissingCodeAndState(code, state) == Falsy(code) /\ Falsy(state)

\* !code || !state
MissingCodeOrState(code, state) == Falsy(code) \/ Falsy(state)

TokenErrorMessage(error) ==
    IF error.error = "invalid_grant" THEN "Authorization code expired. Please try again."
    ELSE IF error.error = "invalid_client" THEN "Invalid client credentials."
    ELSE "Failed to exchange code for token"

\* a catch block that answers with status 200
TokenCatchAnswersOk(error) ==
    [ErrorResponse(200, TokenErrorMessage(error),
                   OrElse(error.error_description, error.message))
       EXCEPT !.access_token = "access-unknown", !.user = "user-unknown"]

\* the catch block of the token handler
TokenCatch(error) ==
    ErrorResponse(OrElseNumber(error.status, 500),
                  TokenErrorMessage(error),
                  OrElse(error.error_description, error.message))

TokenSuccess(tokens, userReply) ==
    [NoResponse EXCEPT !.status = 200,
                       !.access_token = tokens.access_token,
                       !.refresh_token = tokens.refresh_token,
                       !.expires_in = tokens.expires_in,
                       !.user = userReply.user]

(***************************************************************************)
(* The search planner: MOOD_CONFIG, ARTISTS_BY_GENRE, generateSearchTerms. *)
(***************************************************************************)
\* the table with the entry of satisfied repeated under tired
MOOD_CONFIG_TiredAsSatisfied ==
    [frustrated |-> [genres |-> <<"hip hop", "rap", "rock", "metal">>,
                     energy |-> "high", valence |-> "negative"],
     excited    |-> [genres |-> <<"pop", "electronic", "dance", "hip hop">>,
                     energy |-> "high", valence |-> "positive"],
     satisfied  |-> [genres |-> <<"r&b", "soul", "indie", "alternative">>,
                     energy |-> "medium", valence |-> "positive"],
     tired      |-> [genres |-> <<"r&b", "soul", "indie", "alternative">>,
                     energy |-> "medium", valence |-> "positive"],
     euphoric   |-> [genres |-> <<"pop", "hip hop", "funk", "soul">>,
                     energy |-> "very high", valence |-> "very positive"]]

MOOD_CONFIG ==
    [frustrated |-> [genres |-> <<"hip hop", "rap", "rock", "metal">>,
                     energy |-> "high", valence |-> "negative"],
     excited    |-> [genres |-> <<"pop", "electronic", "dance", "hip hop">>,
                     energy |-> "high", valence |-> "positive"],
     satisfied  |-> [genres |-> <<"r&b", "soul", "indie", "alternative">>,
                     energy |-> "medium", valence |-> "positive"],
     tired      |-> [genres |-> <<"indie", "alternative", "ambient", "lo-fi">>,
                     energy |-> "low", valence |-> "neutral"],
     euphoric   |-> [genres |-> <<"pop", "hip hop", "funk", "soul">>,
                     energy |-> "very high", valence |-> "very positive"]]

ARTISTS_BY_GENRE ==
    [g \in {"hip hop", "rap", "pop", "r&b", "soul", "electronic", "indie",
            "alternative", "ambient", "lo-fi"} |->
       CASE g = "hip hop"     -> <<"drake", "kendrick lamar", "j cole", "travis scott">>
         [] g = "rap"         -> <<"eminem", "kanye west", "jay z", "nas">>
         [] g = "pop"         -> <<"taylor swift", "dua lipa", "ariana grande", "the weeknd">>
         [] g = "r&b"         -> <<"sza", "frank ocean", "the weeknd", "bryson tiller">>
         [] g = "soul"        -> <<"alicia keys", "john legend", "anderson paak", "h.e.r">>
         [] g = "electronic"  -> <<"calvin harris", "deadmau5", "skrillex">>
         [] g = "indie"       -> <<"mac miller", "rex orange county", "clairo">>
         [] g = "alternative" -> <<"lana del rey", "arctic monkeys", "tame impala">>
         [] g = "ambient"     -> <<"bon iver", "cigarettes after sex", "beach house">>
         [] g = "lo-fi"       -> <<"joji", "keshi", "88rising collective">>]

\* names every object literal inherits from Object.prototype: MOOD_CONFIG[name]
\* is then a member of the prototype, truthy and without genres
ObjectPrototypeKeys ==
    {"constructor", "toString", "toLocaleString", "valueOf", "hasOwnProperty",
     "isPrototypeOf", "propertyIsEnumerable", "__proto__", "__defineGetter__",
     "__defineSetter__", "__lookupGetter__", "__lookupSetter__"}

\* the value of an inherited member, seen as a configuration: no field is defined
InheritedMember == [genres |-> << >>, energy |-> Undefined, valence |-> Undefined]

\* MOOD_CONFIG[mood] || MOOD_CONFIG.satisfied
ResolveConfig(mood) ==
    IF mood \in DOMAIN MOOD_CONFIG THEN MOOD_CONFIG[mood]
    ELSE IF mood \in ObjectPrototypeKeys THEN InheritedMember
    ELSE MOOD_CONFIG["satisfied"]

\* config.genres.forEach throws a TypeError when config.genres is undefined
GenresUndefined(config) == config = InheritedMember

\* ARTISTS_BY_GENRE[genre] || []
ArtistsOf(genre) ==
    IF genre \in DOMAIN ARTISTS_BY_GENRE THEN ARTISTS_BY_GENRE[genre] ELSE << >>

\* a slice that keeps the whole array
SliceKeepsAll(array, n) == array

\* array.slice(0, n)
Slice(array, n) == SubSeq(array, 1, IF Len(array) < n THEN Len(array) ELSE n)

\* the terms one genre contributes, in the order they are pushed
GenreTerms(genre, config) ==
    LET artists == Slice(ArtistsOf(genre), 2)
    IN <<genre \o " " \o config.valence,
         genre \o " " \o config.energy \o " energy">>
       \o [i \in 1..Len(artists) |-> artists[i] \o " " \o genre]

RECURSIVE AllGenreTerms(_, _)
AllGenreTerms(genres, config) ==
    IF genres = << >> THEN << >>
    ELSE GenreTerms(Head(genres), config) \o AllGenreTerms(Tail(genres), config)

modifiers == <<"trending", "popular", "latest", "hits", "best">>

\* searchTerms as pushed, before filter/sort/slice, at Date.now() = t
PushedTerms(mood, config, t) ==
    AllGenreTerms(config.genres, config)
    \o <<mood \o " coding music",
         config.valence \o " " \o config.energy \o " music",
         modifiers[(t % Len(modifiers)) + 1] \o " " \o config.genres[1]>>

\* self.indexOf(term): the first position holding term
IndexOf(self, term) == CHOOSE i \in 1..Len(self) : self[i] = term /\ \A j \in 1..(i - 1) : self[j] # term

\* .filter((term, index, self) => self.indexOf(term) === index)
RECURSIVE FilterFirstOccurrences(_, _)
FilterFirstOccurrences(self, index) ==
    IF index > Len(self) THEN << >>
    ELSE (IF IndexOf(self, self[index]) = index THEN <<self[index]>> ELSE << >>)
         \o FilterFirstOccurrences(self, index + 1)

\* p with x put at position k
InsertAt(p, k, x) == SubSeq(p, 1, k - 1) \o <<x>> \o SubSeq(p, k, Len(p))

\* every order of the positions 1..n
RECURSIVE AllOrders(_)
AllOrders(n) ==
    IF n = 0 THEN {<< >>}
    ELSE UNION { {InsertAt(p, k, n) : k \in 1..n} : p \in AllOrders(n - 1) }

\* the outcomes of .sort(() => 0.5 - Math.random()) on an array of n
\* elements: with a comparator that answers at random the array can come
\* back in any order
ShuffleChoices(n) == AllOrders(n)

\* .sort(() => 0.5 - Math.random()) coming back in the given order:
\* position i of the result holds element order[i] of the array
Shuffled(array, order) == [i \in 1..Len(array) |-> array[order[i]]]

\* the positions 1..n in ascending order
Positions(n) == [i \in 1..n |-> i]

\* the sets of positions the sort can leave in the first k places of an array
\* of n elements: any k of them, all of them when the array is shorter
KeptChoices(n, k) ==
    {kept \in SUBSET (1..n) : Cardinality(kept) = IF n < k THEN n ELSE k}

\* the order that has the positions of kept in its first places and the
\* other positions after them, each part ascending
KeptFirst(n, kept) ==
    SelectSeq(Positions(n), LAMBDA i : i \in kept)
    \o SelectSeq(Positions(n), LAMBDA i : i \notin kept)

\* .slice(0, 11)
SliceEleven(array) == Slice(array, 11)

\* .slice(0, 10)
SliceTen(array) == Slice(array, 10)

\* no call of generateSearchTerms
NothingReturned ==
    [mood |-> Undefined, at |-> 0, config |-> InheritedMember, threw |-> FALSE,
     pushed |-> << >>, terms |-> << >>]

\* searchTerms.filter((term, index, self) => self.indexOf(term) === index) of
\* the call at Date.now() = t; empty when the call throws before it
FilteredTerms(mood, t) ==
    IF GenresUndefined(ResolveConfig(mood)) THEN << >>
    ELSE FilterFirstOccurrences(PushedTerms(mood, ResolveConfig(mood), t), 1)

\* generateSearchTerms(mood) at Date.now() = t with the sort coming back in
\* the given order: the resolved configuration, the terms pushed, and the
\* terms returned
generateSearchTerms(mood, t, order) ==
    LET config == ResolveConfig(mood)
    IN IF GenresUndefined(config)
       THEN [NothingReturned EXCEPT !.mood = mood, !.at = t, !.threw = TRUE]
       ELSE [mood |-> mood, at |-> t, config |-> config, threw |-> FALSE,
             pushed |-> PushedTerms(mood, config, t),
             terms |-> SliceTen(Shuffled(FilteredTerms(mood, t), order))]

\* the call of generateSearchTerms with the sort coming back in another
\* order: the array returned is the one thing the order of the sort changes
SortedAs(call, filtered, order) ==
    IF call.threw THEN call
    ELSE [call EXCEPT !.terms = SliceTen(Shuffled(filtered, order))]

\* what is kept of a call of generateSearchTerms: the array returned is kept
\* as the number of its terms and the set of them, so that the outcomes of
\* the sort that return the same terms in another order are one state
PlannerRecord(call) ==
    [mood |-> call.mood, at |-> call.at, config |-> call.config,
     threw |-> call.threw, pushed |-> call.pushed,
     count |-> Len(call.terms),
     terms |-> {call.terms[i] : i \in DOMAIN call.terms}]

NothingPlanned == PlannerRecord(NothingReturned)

(***************************************************************************)
(* Tracks and the diversity selector: selectDiverseTracks.                 *)
(***************************************************************************)
\* a track of the upstream service; user.present is FALSE when the track has
\* no user, title and user.username are Undefined when absent
Track(id, title, hasUser, username, plays, likes, duration) ==
    [id |-> id, title |-> title,
     user |-> [present |-> hasUser, username |-> username],
     playback_count |-> plays, likes_count |-> likes, duration |-> duration]

\* the strings of the model that hold upper-case letters, with their lower-case form
LowerCaseTable ==
    [s \in {"Night Drive", "Sunrise", "Dusk", "DJ Luna", "Orbit"} |->
       CASE s = "Night Drive" -> "night drive"
         [] s = "Sunrise"     -> "sunrise"
         [] s = "Dusk"        -> "dusk"
         [] s = "DJ Luna"     -> "dj luna"
         [] s = "Orbit"       -> "orbit"]

\* String.prototype.toLowerCase
ToLowerCase(s) == IF s \in DOMAIN LowerCaseTable THEN LowerCaseTable[s] ELSE s

\* value?.toLowerCase() || ''
LowerOrEmpty(value) == IF value = Undefined THEN "" ELSE OrElse(ToLowerCase(value), "")

\* track.user?.username?.toLowerCase() || ''
\* track.user?.username || ''
ArtistNameCaseSensitive(track) ==
    IF track.user.present /\ track.user.username # Undefined
    THEN track.user.username ELSE ""

ArtistName(track) ==
    IF track.user.present THEN LowerOrEmpty(track.user.username) ELSE ""

\* track.title || '', compared as written
TrackTitleCaseSensitive(track) == IF track.title = Undefined THEN "" ELSE track.title

\* track.title?.toLowerCase() || ''
TrackTitle(track) == LowerOrEmpty(track.title)

NothingSeen == [unique |-> << >>, seenTitles |-> {}, seenArtists |-> {}]

\* the first tracks.forEach: uniqueTracks (as positions of the pool),
\* seenTitles and seenArtists after the tracks from position i on
RECURSIVE FirstPass(_, _, _)
FirstPass(tracks, i, seen) ==
    IF i > Len(tracks) THEN seen
    ELSE LET artistName == ArtistName(tracks[i])
             trackTitle == TrackTitle(tracks[i])
         IN IF artistName \notin seen.seenArtists /\ trackTitle \notin seen.seenTitles
            THEN FirstPass(tracks, i + 1,
                           [unique |-> Append(seen.unique, i),
                            seenTitles |-> seen.seenTitles \cup {trackTitle},
                            seenArtists |-> seen.seenArtists \cup {artistName}])
            ELSE FirstPass(tracks, i + 1, seen)

\* the second tracks.forEach, which ignores the artist
RECURSIVE SecondPass(_, _, _, _)
SecondPass(tracks, limit, i, seen) ==
    IF i > Len(tracks) THEN seen
    ELSE LET trackTitle == TrackTitle(tracks[i])
         IN IF Len(seen.unique) < limit /\ trackTitle \notin seen.seenTitles
            THEN SecondPass(tracks, limit, i + 1,
                            [seen EXCEPT !.unique = Append(seen.unique, i),
                                         !.seenTitles = seen.seenTitles \cup {trackTitle}])
            ELSE SecondPass(tracks, limit, i + 1, seen)

\* uniqueTracks.length < limit: whether the second pass runs
NeedsSecondPass(unique, limit) == Len(unique) < limit

\* uniqueTracks before the sort: the positions admitted by the first pass,
\* whether the second pass ran, and the positions admitted by both
uniqueTracks(tracks, limit) ==
    LET first == FirstPass(tracks, 1, NothingSeen)
        second == NeedsSecondPass(first.unique, limit)
        both == IF second THEN SecondPass(tracks, limit, 1, first) ELSE first
    IN [pass1 |-> first.unique, ranPass2 |-> second, unique |-> both.unique]

\* a selector that returns nothing when it has fewer tracks than the target
selectNothingBelowTarget(tracks, limit, order) ==
    LET u == uniqueTracks(tracks, limit)
    IN [pass1 |-> u.pass1, ranPass2 |-> u.ranPass2, unique |-> u.unique,
        out |-> IF Len(u.unique) < limit THEN << >>
                ELSE Slice(Shuffled(u.unique, order), limit)]

\* selectDiverseTracks(tracks, limit) with the sort coming back in the given
\* order: the positions admitted by the first pass, by both passes, and the
\* positions of the pool returned, in the order returned
selectDiverseTracks(tracks, limit, order) ==
    LET u == uniqueTracks(tracks, limit)
    IN [pass1 |-> u.pass1, ranPass2 |-> u.ranPass2, unique |-> u.unique,
        out |-> Slice(Shuffled(u.unique, order), limit)]

\* the tracks at the given positions of a pool
TracksAt(tracks, positions) == [k \in 1..Len(positions) |-> tracks[positions[k]]]

NothingSelected ==
    [called |-> FALSE, tracks |-> << >>, limit |-> 0,
     result |-> [pass1 |-> << >>, ranPass2 |-> FALSE, unique |-> << >>, out |-> << >>]]

(***************************************************************************)
(* The playlist request: searchTracksForMood, createPlaylistWithTracks and *)
(* POST /api/soundcloud/playlist.                                          *)
(***************************************************************************)
\* the Authorization headers a client can send, with what
\* .replace('Bearer ', '') makes of each
BearerTable ==
    [h \in {"Bearer ", "Bearer access-1", "access-1"} |->
       CASE h = "Bearer "         -> ""
         [] h = "Bearer access-1" -> "access-1"
         [] h = "access-1"        -> "access-1"]

\* req.headers.authorization?.replace('Bearer ', '')
BearerToken(authorization) ==
    IF authorization = Undefined THEN Undefined ELSE BearerTable[authorization]

\* track.playback_count > 1000 || track.likes_count > 50
HasEngagement(track) == track.playback_count > 1000 \/ track.likes_count > 50

\* a duration test that admits both bounds
AppropriateDurationInclusive(track) ==
    track.duration >= 90000 /\ track.duration <= 480000

\* track.duration > 90000 && track.duration < 480000
AppropriateDuration(track) == track.duration > 90000 /\ track.duration < 480000

\* the callback of response.data.filter
PassesFilter(track) == HasEngagement(track) /\ AppropriateDuration(track)

\* response.data.filter(...)
RECURSIVE FilterTracks(_)
FilterTracks(data) ==
    IF data = << >> THEN << >>
    ELSE (IF PassesFilter(Head(data)) THEN <<Head(data)>> ELSE << >>)
         \o FilterTracks(Tail(data))

\* an axios error of the upstream API: response.status, response.data.errors, message
UpstreamError(status, errors, message) ==
    [ok |-> FALSE, status |-> status, errors |-> errors, message |-> message,
     data |-> << >>]

\* what GET /tracks returns for the n-th term searched: empty results, tracks
\* that pass the filter, tracks at and beyond each bound of the filter, a
\* track that comes back for two terms, two tracks of one title, and tracks
\* without user or title
SearchResults(n) ==
    LET k == NumberToString(n)
    IN CASE n % 5 = 1 ->
              <<Track(10 * n + 1, "title-" \o k \o "-a", TRUE, "artist-a", 1001, 0, 90001),
                Track(10 * n + 2, "title-b", TRUE, "artist-b", 0, 51, 479999)>>
         [] n % 5 = 2 ->
              <<Track(10 * n + 1, "title-" \o k \o "-a", TRUE, "artist-a", 1000, 50, 200000),
                Track(10 * n + 2, "title-" \o k \o "-b", TRUE, "artist-c", 2000, 0, 90000)>>
         [] n % 5 = 3 ->
              <<Track(10 * n + 1, "title-" \o k \o "-a", TRUE, "artist-b", 2000, 60, 480000),
                Track(32, "title-3-b", FALSE, Undefined, 2000, 60, 300000)>>
         [] n % 5 = 4 ->
              <<Track(10 * (n - 3) + 1, "title-" \o NumberToString(n - 3) \o "-a",
                      TRUE, "artist-a", 1001, 0, 90001),
                Track(10 * n + 2, Undefined, TRUE, "artist-d", 0, 0, 300000)>>
         [] OTHER -> << >>

\* the replies of GET https://api.soundcloud.com/tracks for the n-th term
SearchReplies(n) ==
    { [ok |-> TRUE, status |-> 200, errors |-> Undefined, message |-> Undefined,
       data |-> SearchResults(n)],
      UpstreamError(500, Undefined, "Request failed with status code 500") }

\* a call that has not settled holds this in place of its reply
NoReply(data) ==
    [ok |-> FALSE, status |-> 0, errors |-> Undefined, message |-> Undefined,
     data |-> data]

\* allTracks.push(...filteredTracks) when the call succeeded, the empty catch
\* block when it failed
PushFilteredDropsPoolOnFailure(allTracks, reply) ==
    IF reply.ok THEN allTracks \o FilterTracks(reply.data) ELSE << >>

PushFiltered(allTracks, reply) ==
    allTracks \o (IF reply.ok THEN FilterTracks(reply.data) ELSE << >>)

\* allTracks.length === 0
NoTracksFound(allTracks) == Len(allTracks) = 0

\* finalTracks.map(track => track.id)
TrackIds(tracks) == [k \in 1..Len(tracks) |-> tracks[k].id]

\* trackIds.map(id => ({ id: id.toString() }))
PlaylistTracks(trackIds) ==
    [k \in 1..Len(trackIds) |-> [id |-> NumberToString(trackIds[k])]]

\* the playlist the upstream service creates: with the tracks of a JSON
\* request, without tracks for a form-encoded one
CreatedPlaylist(encoding, trackIds) ==
    [id |-> "playlist-by-" \o encoding,
     tracks |-> IF encoding = "json" THEN PlaylistTracks(trackIds) ELSE << >>]

NoPlaylist == [id |-> Undefined, tracks |-> << >>]

\* the replies of POST https://api.soundcloud.com/playlists
PlaylistReplies(encoding, trackIds) ==
    { [ok |-> TRUE, status |-> 201, errors |-> Undefined, message |-> Undefined,
       data |-> CreatedPlaylist(encoding, trackIds)],
      [ok |-> FALSE, status |-> 422, errors |-> "Invalid playlist",
       message |-> "Request failed with status code 422", data |-> NoPlaylist],
      [ok |-> FALSE, status |-> 0, errors |-> Undefined,
       message |-> "socket hang up", data |-> NoPlaylist] }

\* the body of a response of POST /api/soundcloud/playlist
NoPlaylistResponse ==
    [status |-> 0, error |-> Undefined, details |-> Undefined,
     playlist |-> [id |-> Undefined, tracks |-> << >>,
                   mood |-> Undefined, analysisData |-> Undefined, generatedAt |-> 0]]

PlaylistError(status, err, details) ==
    [NoPlaylistResponse EXCEPT !.status = status, !.error = err, !.details = details]

\* { ...createdPlaylist, mood, analysisData, generatedAt }
PlaylistSuccessKeepsUpstreamTracks(createdPlaylist, finalTracks, mood, analysisData, t) ==
    [NoPlaylistResponse EXCEPT
       !.status = 200,
       !.playlist = [id |-> createdPlaylist.id,
                     tracks |-> createdPlaylist.tracks,
                     mood |-> mood, analysisData |-> analysisData,
                     generatedAt |-> t]]

\* { ...createdPlaylist, tracks: finalTracks, mood, analysisData, generatedAt }:
\* the spread copies the fields of createdPlaylist, its tracks included, and
\* tracks: finalTracks overwrites that one
PlaylistSuccess(createdPlaylist, finalTracks, mood, analysisData, t) ==
    [NoPlaylistResponse EXCEPT
       !.status = 200,
       !.playlist = [id |-> createdPlaylist.id,
                     tracks |-> finalTracks,
                     mood |-> mood, analysisData |-> analysisData,
                     generatedAt |-> t]]

\* the catch block of the playlist handler
PlaylistCatch(error) ==
    PlaylistError(500, "Failed to create playlist", OrElse(error.errors, error.message))

\* the TypeError of config.genres.forEach
GenresTypeError ==
    UpstreamError(0, Undefined, "Cannot read properties of undefined (reading 'forEach')")

NoPlaylistRequest ==
    [pc |-> "idle", authorization |-> Undefined, mood |-> Undefined,
     analysisData |-> Undefined, terms |-> << >>, searches |-> << >>,
     allTracks |-> << >>, finalTracks |-> << >>, creates |-> << >>,
     res |-> NoPlaylistResponse]

(***************************************************************************)
(* State.                                                                  *)
(***************************************************************************)
VARIABLES
    now,          \* Date.now(), in milliseconds
    pkceStore,    \* the challenge store
    draws,        \* how many (verifier, state) pairs randomBytes has produced
    urlResponses, \* the {authUrl, state} bodies sent, in order
    tokenReqs,    \* the token-exchange requests received, in order of arrival
    tokenCalls,   \* calls issued to the upstream token endpoint, in order
    meCalls,      \* calls issued to the upstream /me endpoint, in order
    events,       \* requests received and clock steps taken
    planned,      \* the last call of generateSearchTerms: input, intermediate and returned values
    selection,    \* the last call of selectDiverseTracks: pool, limit and result
    playlistReq   \* the playlist request: its position, locals, upstream calls and response

authVars == <<now, pkceStore, draws, urlResponses, tokenReqs, tokenCalls, meCalls, events>>

plannerVars == <<planned>>

selectorVars == <<selection>>

playlistVars == <<playlistReq>>

\* the variables the authorization flow leaves alone
notAuthVars == <<plannerVars, selectorVars, playlistVars>>

vars == <<authVars, plannerVars, selectorVars, playlistVars>>

\* what a client can send as code
CodeInputs == {Undefined, "", "code-A"}

\* what a client can send as state: nothing, junk, or a state the service returned
StateInputs == {Undefined, "state-unknown"} \cup {urlResponses[i].state : i \in DOMAIN urlResponses}

AuthInit ==
    /\ now = 0
    /\ pkceStore = << >>
    /\ draws = 0
    /\ urlResponses = << >>
    /\ tokenReqs = << >>
    /\ tokenCalls = << >>
    /\ meCalls = << >>
    /\ events = 0
    /\ planned = NothingPlanned
    /\ selection = NothingSelected
    /\ playlistReq = NoPlaylistRequest

\* time passes between two handler runs
Advance ==
    /\ events < MaxEvents
    /\ \E d \in ClockSteps : now' = now + d
    /\ events' = events + 1
    /\ UNCHANGED <<pkceStore, draws, urlResponses, tokenReqs, tokenCalls, meCalls>>
    /\ UNCHANGED notAuthVars

\* GET /auth/soundcloud/url.  The handler reads the clock for the timestamp of
\* the new record, and cleanupExpiredPkce reads it again: when the second
\* reading is more than fifteen minutes after the first, the cleanup removes
\* the record the handler has just stored, and the response still carries
\* its state.
GetAuthUrl ==
    /\ events < MaxEvents
    /\ \E tick \in ClockTicks :
         LET codeVerifier == generateCodeVerifier(draws + 1)
             codeChallenge == generateCodeChallenge(codeVerifier)
             state == generateState(draws + 1)
             stored == PkceSet(pkceStore, state,
                               [codeVerifier |-> codeVerifier,
                                codeChallenge |-> codeChallenge,
                                timestamp |-> now])
         IN /\ pkceStore' = cleanupExpiredPkce(stored, now + tick)
            /\ urlResponses' = Append(urlResponses,
                                      [code_challenge |-> codeChallenge, state |-> state])
            /\ now' = now + tick
    /\ draws' = draws + 1
    /\ events' = events + 1
    /\ UNCHANGED <<tokenReqs, tokenCalls, meCalls>>
    /\ UNCHANGED notAuthVars

\* POST /auth/soundcloud/token, from the arrival of the request to the first
\* await (the call to the token endpoint) or to an early 400
PostToken ==
    /\ events < MaxEvents
    /\ \E code \in CodeInputs, state \in StateInputs :
         LET pkceData == PkceGet(pkceStore, state)
             req == [code |-> code, state |-> state, receivedAt |-> now,
                     pc |-> "done", pkceData |-> NoPkceData,
                     tokens |-> NoResponse, caught |-> NoError, res |-> NoResponse]
         IN IF MissingCodeOrState(code, state)
            THEN /\ tokenReqs' = Append(tokenReqs, [req EXCEPT !.res = ValidationError])
                 /\ UNCHANGED <<pkceStore, tokenCalls>>
            ELSE IF PkceMissing(pkceData)
            THEN /\ tokenReqs' = Append(tokenReqs, [req EXCEPT !.res = StateError])
                 /\ UNCHANGED <<pkceStore, tokenCalls>>
            ELSE /\ pkceStore' = PkceDelete(pkceStore, state)
                 /\ tokenCalls' = Append(tokenCalls,
                                         [req |-> Len(tokenReqs) + 1, code |-> code,
                                          code_verifier |-> pkceData.codeVerifier])
                 /\ tokenReqs' = Append(tokenReqs,
                                        [req EXCEPT !.pc = "awaitToken",
                                                    !.pkceData = pkceData])
    /\ events' = events + 1
    /\ UNCHANGED <<now, draws, urlResponses, meCalls>>
    /\ UNCHANGED notAuthVars

\* the token endpoint's reply settles the first await: on success the handler
\* goes on to the /me call, on failure to its catch block
TokenEndpointSettles ==
    \E r \in DOMAIN tokenReqs :
      /\ tokenReqs[r].pc = "awaitToken"
      /\ \E reply \in TokenEndpointReplies(tokenReqs[r].pkceData.codeVerifier) :
           IF reply.ok
           THEN /\ tokenReqs' = [tokenReqs EXCEPT ![r].pc = "awaitMe",
                                                  ![r].tokens = TokenSuccess(reply, reply)]
                /\ meCalls' = Append(meCalls, [req |-> r, bearer |-> reply.access_token])
           ELSE /\ tokenReqs' = [tokenReqs EXCEPT ![r].pc = "done",
                                                  ![r].caught = reply,
                                                  ![r].res = TokenCatch(reply)]
                /\ UNCHANGED meCalls
      /\ UNCHANGED <<now, pkceStore, draws, urlResponses, tokenCalls, events>>
      /\ UNCHANGED notAuthVars

\* the /me reply settles the second await: the success response, or the catch block
MeEndpointSettles ==
    \E r \in DOMAIN tokenReqs :
      /\ tokenReqs[r].pc = "awaitMe"
      /\ \E reply \in MeEndpointReplies(tokenReqs[r].tokens.access_token) :
           tokenReqs' = [tokenReqs EXCEPT
                           ![r].pc = "done",
                           ![r].caught = IF reply.ok THEN NoError ELSE reply,
                           ![r].res = IF reply.ok
                                      THEN TokenSuccess(tokenReqs[r].tokens, reply)
                                      ELSE TokenCatch(reply)]
      /\ UNCHANGED <<now, pkceStore, draws, urlResponses, tokenCalls, meCalls, events>>
      /\ UNCHANGED notAuthVars

Init == AuthInit

Next ==
    \/ Advance
    \/ GetAuthUrl
    \/ PostToken
    \/ TokenEndpointSettles
    \/ MeEndpointSettles

Spec == Init /\ [][Next]_vars

(***************************************************************************)
(* The planner on its own: generateSearchTerms called with any mood, at    *)
(* any time, with the sort coming back in any order.  The sort can return  *)
(* the fifteen to nineteen candidate terms in any order, and .slice keeps  *)
(* the first ten: the terms returned are any ten of the candidates.  The   *)
(* record of the call keeps them as a set (PlannerRecord), and the action  *)
(* follows every set of ten, through the order that has the ten in its     *)
(* first places.                                                           *)
(***************************************************************************)
\* mood labels a client can send: the five of MOOD_CONFIG, labels it does not
\* hold, and a name MOOD_CONFIG inherits
MoodInputs ==
    {"frustrated", "excited", "satisfied", "tired", "euphoric",
     "unknownmood", "Tired", "constructor"}

\* time passes before the call
PlannerTick ==
    /\ now < MaxPlannerClock
    /\ planned = NothingPlanned
    /\ now' = now + 1
    /\ UNCHANGED <<pkceStore, draws, urlResponses, tokenReqs, tokenCalls, meCalls, events>>
    /\ UNCHANGED notAuthVars

\* one call of generateSearchTerms in a behaviour
PlanSearchTerms ==
    /\ planned = NothingPlanned
    /\ \E mood \in MoodInputs :
         \E filtered \in {FilteredTerms(mood, now)} :
           \E call \in {generateSearchTerms(mood, now, Positions(Len(filtered)))} :
             \E kept \in KeptChoices(Len(filtered), Len(call.terms)) :
               planned' = PlannerRecord(SortedAs(call, filtered,
                                                 KeptFirst(Len(filtered), kept)))
    /\ UNCHANGED <<authVars, selectorVars, playlistVars>>

PlannerNext ==
    \/ PlannerTick
    \/ PlanSearchTerms

SpecPlanner == Init /\ [][PlannerNext]_vars

(***************************************************************************)
(* The diversity selector on its own: selectDiverseTracks called with any  *)
(* pool of at most MaxPool tracks, any target, and the sort coming back in *)
(* any order.                                                              *)
(***************************************************************************)
\* tracks that agree and differ in lower-cased title and artist, with and
\* without title, user and username
TrackUniverse ==
    { Track(1, "Night Drive", TRUE, "DJ Luna", 5000, 10, 200000),
      Track(2, "night drive", TRUE, "Orbit", 5000, 10, 200000),
      Track(3, "Sunrise", TRUE, "dj luna", 5000, 10, 200000),
      Track(4, Undefined, FALSE, Undefined, 5000, 10, 200000),
      Track(5, "", TRUE, Undefined, 5000, 10, 200000),
      Track(6, "Dusk", TRUE, "DJ Luna", 5000, 10, 200000) }

\* the pools: every sequence of at most MaxPool tracks
Pools == UNION {[1..n -> TrackUniverse] : n \in 0..MaxPool}

\* the target counts: small ones and the default
Targets == (0..MaxTarget) \cup {15}

\* one call of selectDiverseTracks in a behaviour
SelectTracks ==
    /\ ~selection.called
    /\ \E tracks \in Pools, limit \in Targets :
         \E order \in ShuffleChoices(Len(uniqueTracks(tracks, limit).unique)) :
           selection' = [called |-> TRUE, tracks |-> tracks, limit |-> limit,
                         result |-> selectDiverseTracks(tracks, limit, order)]
    /\ UNCHANGED <<authVars, plannerVars, playlistVars>>

SelectorNext == SelectTracks

SpecSelector == Init /\ [][SelectorNext]_vars

(***************************************************************************)
(* One playlist request from arrival to response.  Each action is one      *)
(* stretch of POST /api/soundcloud/playlist between two awaits.  The       *)
(* request's record names a search term by its place in the array that     *)
(* generateSearchTerms returned (TermPlaces): which candidate the sort put *)
(* at a place is read by nothing but the q of the search call, and the     *)
(* search endpoint's replies are drawn whatever q is.  A behaviour of the  *)
(* record therefore stands for the requests of every order of the sort.    *)
(***************************************************************************)
\* what a client can send as Authorization header
AuthorizationHeaders == {Undefined, "Bearer ", "Bearer access-1"}

\* what a client can send as mood: nothing, the empty string, labels
\* MOOD_CONFIG holds, one it does not hold, and a name it inherits
PlaylistMoods == {Undefined, "", "tired", "frustrated", "unknownmood", "constructor"}

\* what a client can send as analysisData
AnalysisInputs == {Undefined, "analysis-1"}

\* const searchTerms = generateSearchTerms(mood), each term named by its place
\* in the array
TermPlaces(searchTerms) == Positions(Len(searchTerms))

\* axios.get(`${SOUNDCLOUD_API_BASE}/tracks`, {params: {q: term, limit: 4, ...}}),
\* term being the place of the term in searchTerms
SearchCall(term) ==
    [q |-> term, limit |-> 4, settled |-> FALSE, reply |-> NoReply(<< >>)]

\* axios.post(`${SOUNDCLOUD_API_BASE}/playlists`, ...): JSON with the tracks,
\* or form-encoded without them
PlaylistCall(encoding, trackIds) ==
    [encoding |-> encoding,
     tracks |-> IF encoding = "json" THEN PlaylistTracks(trackIds) ELSE << >>,
     settled |-> FALSE, reply |-> NoReply(NoPlaylist)]

\* the call in flight, the last one issued, gets its reply
Settled(calls, reply) ==
    [calls EXCEPT ![Len(calls)].settled = TRUE, ![Len(calls)].reply = reply]

\* the catch block of createPlaylistWithTracks rethrowing instead of retrying
RethrowPrimary(req) ==
    [req EXCEPT !.pc = "done",
                !.res = PlaylistCatch(req.creates[Len(req.creates)].reply)]

\* the catch block of createPlaylistWithTracks: the form-encoded call
RetryFormEncoded(req) ==
    [req EXCEPT !.pc = "fallback",
                !.creates = Append(@, PlaylistCall("form", TrackIds(req.finalTracks)))]

\* the handler up to the first search call.  The length of searchTerms and
\* whether generateSearchTerms throws are the same for every order of the
\* sort; they are computed with the order that leaves the array as it is.
PostPlaylist ==
    /\ playlistReq.pc = "idle"
    /\ \E authorization \in AuthorizationHeaders, mood \in PlaylistMoods,
          analysisData \in AnalysisInputs :
       \E order \in {Positions(Len(FilteredTerms(mood, now)))} :
         LET req == [playlistReq EXCEPT !.authorization = authorization,
                                        !.mood = mood,
                                        !.analysisData = analysisData]
             plan == generateSearchTerms(mood, now, order)
         IN playlistReq' =
              IF Falsy(BearerToken(authorization))
              THEN [req EXCEPT !.pc = "done",
                               !.res = PlaylistError(401, "Access token required", Undefined)]
              ELSE IF Falsy(mood)
              THEN [req EXCEPT !.pc = "done",
                               !.res = PlaylistError(400, "Mood is required", Undefined)]
              ELSE IF plan.threw
              THEN [req EXCEPT !.pc = "done", !.res = PlaylistCatch(GenresTypeError)]
              ELSE [req EXCEPT !.pc = "searching",
                               !.terms = TermPlaces(plan.terms),
                               !.searches = <<SearchCall(TermPlaces(plan.terms)[1])>>]
    /\ UNCHANGED <<authVars, plannerVars, selectorVars>>

\* one search call settles: the rest of the loop body, then the next call or,
\* after the last term, the handler up to the first playlist call
SearchSettles ==
    /\ playlistReq.pc = "searching"
    /\ \E reply \in SearchReplies(Len(playlistReq.searches)) :
         LET n == Len(playlistReq.searches)
             allTracks == PushFiltered(playlistReq.allTracks, reply)
             req == [playlistReq EXCEPT !.searches = Settled(@, reply),
                                        !.allTracks = allTracks]
             selects == n = Len(playlistReq.terms) /\ ~NoTracksFound(allTracks)
             orders == IF selects
                       THEN ShuffleChoices(Len(uniqueTracks(allTracks, 15).unique))
                       ELSE {<< >>}
         IN \E order \in orders :
              LET finalTracks ==
                      TracksAt(allTracks, selectDiverseTracks(allTracks, 15, order).out)
              IN playlistReq' =
                   IF n < Len(playlistReq.terms)
                   THEN [req EXCEPT !.searches =
                                      Append(@, SearchCall(playlistReq.terms[n + 1]))]
                   ELSE IF NoTracksFound(allTracks)
                   THEN [req EXCEPT !.pc = "done",
                                    !.res = PlaylistError(404,
                                               "No suitable tracks found for this mood",
                                               Undefined)]
                   ELSE [req EXCEPT !.pc = "creating",
                                    !.finalTracks = finalTracks,
                                    !.creates = <<PlaylistCall("json",
                                                               TrackIds(finalTracks))>>]
    /\ UNCHANGED <<authVars, plannerVars, selectorVars>>

\* the JSON playlist call settles: the response, or the catch block of
\* createPlaylistWithTracks up to the form-encoded call
PrimarySettles ==
    /\ playlistReq.pc = "creating"
    /\ \E reply \in PlaylistReplies("json", TrackIds(playlistReq.finalTracks)) :
         LET req == [playlistReq EXCEPT !.creates = Settled(@, reply)]
         IN playlistReq' =
              IF reply.ok
              THEN [req EXCEPT !.pc = "done",
                               !.res = PlaylistSuccess(reply.data, req.finalTracks,
                                                       req.mood, req.analysisData, now)]
              ELSE RetryFormEncoded(req)
    /\ UNCHANGED <<authVars, plannerVars, selectorVars>>

\* the form-encoded playlist call settles: the response, or the catch block
\* of the handler
FallbackSettles ==
    /\ playlistReq.pc = "fallback"
    /\ \E reply \in PlaylistReplies("form", TrackIds(playlistReq.finalTracks)) :
         LET req == [playlistReq EXCEPT !.creates = Settled(@, reply)]
         IN playlistReq' =
              IF reply.ok
              THEN [req EXCEPT !.pc = "done",
                               !.res = PlaylistSuccess(reply.data, req.finalTracks,
                                                       req.mood, req.analysisData, now)]
              ELSE [req EXCEPT !.pc = "done", !.res = PlaylistCatch(reply)]
    /\ UNCHANGED <<authVars, plannerVars, selectorVars>>

PlaylistNext ==
    \/ PostPlaylist
    \/ SearchSettles
    \/ PrimarySettles
    \/ FallbackSettles

SpecPlaylist == Init /\ [][PlaylistNext]_vars

(***************************************************************************)
(* Properties of the authorization flow, checked under Spec.               *)
(***************************************************************************)
Range(seq) == {seq[i] : i \in DOMAIN seq}

\* the states the service has returned to callers
IssuedStates == {urlResponses[i].state : i \in DOMAIN urlResponses}

\* request r found its record at lookup
Found(r) == tokenReqs[r].pkceData.codeVerifier # Undefined

\* request r carries both fields
WellFormed(r) == ~Falsy(tokenReqs[r].code) /\ ~Falsy(tokenReqs[r].state)

\* the upstream calls request r has issued
CallsOf(r) ==
    {a \in DOMAIN tokenCalls : tokenCalls[a].req = r} \cup
    {-a : a \in {b \in DOMAIN meCalls : meCalls[b].req = r}}

\* C1: a record created at time T is never obtained by a token-exchange
\* lookup made at a time >= T + 15 minutes, whatever happened in between.
C1_ExpiredRecordNotRetrievable ==
    \A r \in DOMAIN tokenReqs :
      Found(r) =>
        tokenReqs[r].receivedAt < tokenReqs[r].pkceData.timestamp + FIFTEEN_MINUTES

\* C2: once a token-exchange request carrying state s has found its record,
\* every later request carrying s obtains no record and is answered 400; when
\* it carries a code the answer is 'State parameter already used or expired'.
C2_OneShotConsume ==
    \A i, j \in DOMAIN tokenReqs :
      (i < j /\ Found(i) /\ tokenReqs[j].state = tokenReqs[i].state) =>
        /\ ~Found(j)
        /\ tokenReqs[j].pc = "done"
        /\ tokenReqs[j].res.status = 400
        /\ WellFormed(j) => tokenReqs[j].res = StateError

\* C2 happens: a request found its record, its exchange failed upstream, and a
\* later request with the same state and a code was turned away.
C2_Witness ==
    \E i, j \in DOMAIN tokenReqs :
      /\ i < j /\ Found(i) /\ tokenReqs[j].state = tokenReqs[i].state
      /\ tokenReqs[i].pc = "done" /\ tokenReqs[i].res.status # 200
      /\ WellFormed(j) /\ tokenReqs[j].res = StateError

\* C3: however the handlers interleave, at most one token-exchange request
\* obtains the record of a state token, and the upstream token endpoint is
\* called at most once with a given verifier.
C3_AtMostOneExchangePerRecord ==
    /\ \A i, j \in DOMAIN tokenReqs :
         (Found(i) /\ Found(j) /\ tokenReqs[i].state = tokenReqs[j].state) => i = j
    /\ \A a, b \in DOMAIN tokenCalls :
         tokenCalls[a].code_verifier = tokenCalls[b].code_verifier => a = b

\* C3 happens: a second request with the same state arrives while the first
\* still awaits the token endpoint, an authorization-URL request (with its
\* eviction) having run between the two arrivals.
C3_Witness ==
    \E i, j \in DOMAIN tokenReqs :
      /\ i < j /\ tokenReqs[i].pc = "awaitToken"
      /\ tokenReqs[j].state = tokenReqs[i].state /\ WellFormed(j)
      /\ tokenReqs[j].res = StateError
      /\ events = Len(urlResponses) + Len(tokenReqs)
      /\ tokenReqs[j].receivedAt # tokenReqs[i].receivedAt
      /\ \E s \in DOMAIN pkceStore :
           pkceStore[s].timestamp = tokenReqs[i].receivedAt

\* the request received in this step, if the step is the arrival of one
Arrival == Len(tokenReqs') = Len(tokenReqs) + 1

Arrived == tokenReqs'[Len(tokenReqs')]

\* C4 (in every state): a request with code or state missing is answered with
\* the 400 validation error and has issued no upstream call.
C4_Rejected ==
    \A r \in DOMAIN tokenReqs :
      ~WellFormed(r) =>
        /\ tokenReqs[r].pc = "done"
        /\ tokenReqs[r].res = ValidationError
        /\ CallsOf(r) = {}

\* C4 (in every step): the arrival of such a request changes neither the
\* store nor the upstream calls.
C4_Step ==
    (Arrival /\ (Falsy(Arrived.code) \/ Falsy(Arrived.state))) =>
      /\ pkceStore' = pkceStore
      /\ tokenCalls' = tokenCalls
      /\ meCalls' = meCalls

\* C4: a token-exchange request in which code or state is missing yields the
\* 400 validation error, issues no upstream call and leaves the store unchanged.
C4_MissingFieldRejected == []C4_Rejected /\ [][C4_Step]_vars

\* C4 happens: a request named a state whose record is in the store, carried
\* no code, was answered with the validation error, and the record is still there.
C4_Witness ==
    \E r \in DOMAIN tokenReqs :
      /\ Falsy(tokenReqs[r].code)
      /\ tokenReqs[r].state \in DOMAIN pkceStore
      /\ tokenReqs[r].res = ValidationError

\* C5 (in every state): a request answered 'state already used or expired'
\* obtained no record and has issued no upstream call.
C5_Rejected ==
    \A r \in DOMAIN tokenReqs :
      tokenReqs[r].res = StateError =>
        /\ tokenReqs[r].pc = "done"
        /\ ~Found(r)
        /\ CallsOf(r) = {}

\* C5 (in every step): a request with both fields whose state has no record
\* is answered with the state error, and its arrival changes neither the store
\* nor the upstream calls.
C5_Step ==
    (/\ Arrival
     /\ ~Falsy(Arrived.code) /\ ~Falsy(Arrived.state)
     /\ Arrived.state \notin DOMAIN pkceStore) =>
      /\ Arrived.res = StateError
      /\ pkceStore' = pkceStore
      /\ tokenCalls' = tokenCalls
      /\ meCalls' = meCalls

\* C5: a token-exchange request whose state has no record (never issued,
\* already consumed, or evicted) is rejected with the 400 state error, makes
\* no upstream call and leaves the store unchanged.
C5_UnknownStateRejected == []C5_Rejected /\ [][C5_Step]_vars

\* C5 happens: a state that was issued and never looked up before (so it was
\* evicted) is rejected, and so is a state that was never issued.
C5_Witness ==
    /\ \E r \in DOMAIN tokenReqs :
         /\ tokenReqs[r].res = StateError
         /\ tokenReqs[r].state \in IssuedStates
         /\ \A i \in 1..(r - 1) : tokenReqs[i].state # tokenReqs[r].state
    /\ \E r \in DOMAIN tokenReqs :
         /\ tokenReqs[r].res = StateError
         /\ tokenReqs[r].state \notin IssuedStates

\* request r found its record and then failed: it was answered from the catch block
FailedAfterLookup(r) == Found(r) /\ tokenReqs[r].pc = "done" /\ tokenReqs[r].caught # NoError

\* C6: after any failure that follows a successful lookup (the token endpoint
\* rejects, the network fails, the profile fetch fails) the record is absent
\* from the store, and a retry with the same code and state is rejected as
\* unknown state without an upstream call.
C6_FailureLeavesStateConsumed ==
    \A r \in DOMAIN tokenReqs :
      FailedAfterLookup(r) =>
        /\ tokenReqs[r].res.status # 200
        /\ tokenReqs[r].state \notin DOMAIN pkceStore
        /\ \A j \in DOMAIN tokenReqs :
             (j > r /\ tokenReqs[j].state = tokenReqs[r].state
                    /\ tokenReqs[j].code = tokenReqs[r].code) =>
               (tokenReqs[j].res = StateError /\ CallsOf(j) = {})

\* C6 happens: the token exchange succeeded, the profile fetch failed, and the
\* retry with the same code and state was rejected.
C6_Witness ==
    \E r, j \in DOMAIN tokenReqs :
      /\ FailedAfterLookup(r)
      /\ tokenReqs[r].tokens.access_token # Undefined
      /\ j > r /\ tokenReqs[j].state = tokenReqs[r].state
      /\ tokenReqs[j].code = tokenReqs[r].code
      /\ tokenReqs[j].res = StateError

\* C7: when the state is valid and the token endpoint rejects the code with
\* 'invalid_grant', the response carries the message 'Authorization code
\* expired. Please try again.' and its details field is the upstream error code.
C7_InvalidGrantDetails ==
    \A r \in DOMAIN tokenReqs :
      (FailedAfterLookup(r) /\ tokenReqs[r].caught.error = "invalid_grant") =>
        /\ tokenReqs[r].res.error = "Authorization code expired. Please try again."
        /\ tokenReqs[r].res.details = "invalid_grant"

(***************************************************************************)
(* Properties of the search planner, checked under SpecPlanner.            *)
(***************************************************************************)
\* the planner has been called
Planned == planned.mood # Undefined

\* the five moods of MOOD_CONFIG
RecognizedMoods == {"frustrated", "excited", "satisfied", "tired", "euphoric"}

\* what the planner pushes for 'satisfied' at the time of the call observed
SatisfiedPushed == PushedTerms("satisfied", ResolveConfig("satisfied"), planned.at)

\* the candidates of 'satisfied' with the term built from the label of the
\* call observed in the place of 'satisfied coding music'
SatisfiedPushedFor(mood) ==
    (Range(SatisfiedPushed) \ {"satisfied coding music"}) \cup {mood \o " coding music"}

\* C8: for every mood label outside the five recognized ones the planner
\* builds the set of candidate terms it builds for 'satisfied' (before
\* shuffle and truncation, same modifier).  The term '<label> coding music',
\* which carries the label itself, is compared with the label exchanged.
C8_FallbackSameTermSet ==
    (Planned /\ planned.mood \notin RecognizedMoods) =>
      /\ ~planned.threw
      /\ Range(planned.pushed) = SatisfiedPushedFor(planned.mood)

\* C9: for every mood label, modifier and shuffle outcome the planner's
\* output has at most 10 terms and no two equal terms: the array returned is
\* no longer than 10 and holds as many different strings as it has entries.
C9_AtMostTenDistinctTerms ==
    Planned =>
      /\ planned.count <= 10
      /\ Cardinality(planned.terms) = planned.count

\* C9 happens: more than 10 terms were pushed and 10 different ones were
\* returned.
C9_Witness ==
    /\ Planned
    /\ Len(planned.pushed) > 10
    /\ planned.count = 10
    /\ Cardinality(planned.terms) = 10

\* C10 as stated: for mood 'tired' the profile resolved is genres [indie,
\* alternative, ambient, lo-fi], energy low, valence neutral, and the terms
\* returned include 'indie neutral' and 'tired coding music' for every
\* shuffle outcome and modifier.
C10_TiredOutputIncludes ==
    planned.mood = "tired" =>
      /\ planned.config.genres = <<"indie", "alternative", "ambient", "lo-fi">>
      /\ planned.config.energy = "low"
      /\ planned.config.valence = "neutral"
      /\ "indie neutral" \in planned.terms
      /\ "tired coding music" \in planned.terms

\* C10 amended: for mood 'tired' the profile resolved is as stated, and the
\* candidate terms built before shuffle and truncation include 'indie neutral'
\* and 'tired coding music'; the terms returned are 10 of the 19 candidates.
C10_TiredCandidatesInclude ==
    planned.mood = "tired" =>
      /\ ~planned.threw
      /\ planned.config.genres = <<"indie", "alternative", "ambient", "lo-fi">>
      /\ planned.config.energy = "low"
      /\ planned.config.valence = "neutral"
      /\ "indie neutral" \in Range(planned.pushed)
      /\ "tired coding music" \in Range(planned.pushed)
      /\ Cardinality(Range(planned.pushed)) = 19
      /\ planned.count = 10
      /\ Cardinality(planned.terms) = 10
      /\ planned.terms \subseteq Range(planned.pushed)

\* C10 happens: the planner returned for 'tired' with 'indie neutral' among
\* the terms and 'tired coding music' truncated away.
C10_Witness ==
    /\ planned.mood = "tired"
    /\ "indie neutral" \in planned.terms
    /\ "tired coding music" \notin planned.terms

(***************************************************************************)
(* Properties of the diversity selector, checked under SpecSelector.       *)
(***************************************************************************)
\* the tracks returned by the call observed, in the order returned
SelectedTracks == TracksAt(selection.tracks, selection.result.out)

\* the lower-cased title of a track; Undefined when it has none
LowerTitle(track) ==
    IF track.title = Undefined THEN Undefined ELSE ToLowerCase(track.title)

\* C11: for every track pool (tracks without title or user included) and
\* every target count, no two tracks of the selector's output have equal
\* lower-cased titles.
C11_DistinctLowerTitles ==
    selection.called =>
      \A i, j \in DOMAIN SelectedTracks :
        LowerTitle(SelectedTracks[i]) = LowerTitle(SelectedTracks[j]) => i = j

\* C11 happens: the pool held two tracks whose titles differ only in case and
\* a track without title, the second pass ran, and two tracks were returned.
C11_Witness ==
    /\ selection.called
    /\ \E i, j \in DOMAIN selection.tracks :
         /\ i # j
         /\ selection.tracks[i].title # selection.tracks[j].title
         /\ LowerTitle(selection.tracks[i]) = LowerTitle(selection.tracks[j])
    /\ \E i \in DOMAIN selection.tracks : selection.tracks[i].title = Undefined
    /\ selection.result.ranPass2
    /\ Len(selection.result.out) >= 2

\* C12: for every pool and target the selector returns at most
\* min(target, pool size) tracks, each one a track of the pool, and no
\* position of the pool twice.
C12_WithinPoolAndTarget ==
    selection.called =>
      /\ Len(selection.result.out) <= selection.limit
      /\ Len(selection.result.out) <= Len(selection.tracks)
      /\ \A k \in DOMAIN selection.result.out :
           selection.result.out[k] \in DOMAIN selection.tracks
      /\ \A k, m \in DOMAIN selection.result.out :
           selection.result.out[k] = selection.result.out[m] => k = m

\* C12 happens: with a pool smaller than the target every track of the pool is
\* returned; with a pool larger than the target the output is cut to the target.
C12_Witness ==
    /\ selection.called
    /\ \/ /\ Len(selection.tracks) = 3
          /\ selection.limit = 15
          /\ Len(selection.result.out) = 3
       \/ /\ Len(selection.result.unique) > selection.limit
          /\ selection.limit > 0
          /\ Len(selection.result.out) = selection.limit

(***************************************************************************)
(* Properties of the playlist request, checked under SpecPlaylist.         *)
(***************************************************************************)
\* the bearer token the handler extracted
PlaylistToken == BearerToken(playlistReq.authorization)

\* call k of a log has been answered with success / with failure
Succeeded(calls, k) == calls[k].settled /\ calls[k].reply.ok

Failed(calls, k) == calls[k].settled /\ ~calls[k].reply.ok

\* the response is the playlist the given reply created
Returns(reply) ==
    /\ playlistReq.pc = "done"
    /\ playlistReq.res.status = 200
    /\ playlistReq.res.playlist.id = reply.data.id

\* C13: the first playlist call is the JSON one; a form-encoded call without
\* tracks follows exactly when the JSON call failed, and nothing follows it;
\* the playlist of the call that succeeded is returned; when both fail the
\* request answers with the failure of the second call.
C13_PublishingSequence ==
    LET c == playlistReq.creates
    IN /\ Len(c) <= 2
       /\ Len(c) >= 1 => c[1].encoding = "json"
       /\ Len(c) = 2 => /\ Failed(c, 1)
                        /\ c[2].encoding = "form"
                        /\ c[2].tracks = << >>
       /\ (Len(c) >= 1 /\ Failed(c, 1)) => Len(c) = 2
       /\ (Len(c) >= 1 /\ Succeeded(c, 1)) => (Len(c) = 1 /\ Returns(c[1].reply))
       /\ (Len(c) = 2 /\ Succeeded(c, 2)) => Returns(c[2].reply)
       /\ (Len(c) = 2 /\ Failed(c, 2)) =>
            /\ playlistReq.pc = "done"
            /\ playlistReq.res.status = 500
            /\ playlistReq.res.error = "Failed to create playlist"
            /\ playlistReq.res.details = OrElse(c[2].reply.errors, c[2].reply.message)

\* C13 happens: the JSON call was rejected, the form-encoded call failed in
\* another way, and the request answered with the second failure.
C13_Witness ==
    /\ Len(playlistReq.creates) = 2
    /\ Failed(playlistReq.creates, 1)
    /\ playlistReq.creates[1].reply.errors = "Invalid playlist"
    /\ Failed(playlistReq.creates, 2)
    /\ playlistReq.creates[2].reply.errors = Undefined
    /\ playlistReq.res.status = 500
    /\ playlistReq.res.details = "socket hang up"

\* the list is the first tracks, at most limit, of some order of the tracks
\* at the given positions of the pool
Rearranges(list, pool, positions, limit) ==
    /\ Len(list) = (IF Len(positions) < limit THEN Len(positions) ELSE limit)
    /\ \E pick \in [DOMAIN list -> DOMAIN positions] :
         /\ \A i, j \in DOMAIN list : pick[i] = pick[j] => i = j
         /\ \A i \in DOMAIN list : list[i] = pool[positions[pick[i]]]

\* C14: whichever playlist call succeeds, the JSON one or the form-encoded one
\* after it, the response is that call's playlist with the mood and
\* analysisData of the request, and its tracks are the list the selector
\* returned for the pool.
C14_ResponseCarriesSelectedTracks ==
    \A k \in DOMAIN playlistReq.creates :
      Succeeded(playlistReq.creates, k) =>
        /\ playlistReq.pc = "done"
        /\ playlistReq.res.status = 200
        /\ playlistReq.res.playlist =
             [id |-> playlistReq.creates[k].reply.data.id,
              tracks |-> playlistReq.finalTracks,
              mood |-> playlistReq.mood,
              analysisData |-> playlistReq.analysisData,
              generatedAt |-> now]
        /\ Rearranges(playlistReq.finalTracks, playlistReq.allTracks,
                      uniqueTracks(playlistReq.allTracks, 15).unique, 15)

\* C14 happens: the JSON call failed, the form-encoded call created a playlist
\* without tracks, and the response lists the selected tracks.
C14_Witness ==
    /\ Len(playlistReq.creates) = 2
    /\ Failed(playlistReq.creates, 1)
    /\ Succeeded(playlistReq.creates, 2)
    /\ playlistReq.creates[2].reply.data.tracks = << >>
    /\ playlistReq.res.playlist.id = "playlist-by-form"
    /\ Len(playlistReq.res.playlist.tracks) >= 2
    /\ playlistReq.res.playlist.analysisData = "analysis-1"

\* every planned term has been searched and answered
SearchCompleted ==
    /\ Len(playlistReq.searches) = Len(playlistReq.terms)
    /\ \A i \in DOMAIN playlistReq.searches : playlistReq.searches[i].settled

\* C15: a request without bearer token is answered 401, one with a token and
\* without mood 400, neither with any upstream call; a request with both is
\* answered 404 exactly when every term was searched and the pool is empty,
\* and then no playlist call was issued.
C15_RequestOutcomes ==
    LET noCalls == playlistReq.searches = << >> /\ playlistReq.creates = << >>
    IN playlistReq.pc # "idle" =>
         /\ Falsy(PlaylistToken) =>
              /\ playlistReq.pc = "done"
              /\ playlistReq.res.status = 401
              /\ playlistReq.res.error = "Access token required"
              /\ noCalls
         /\ (~Falsy(PlaylistToken) /\ Falsy(playlistReq.mood)) =>
              /\ playlistReq.pc = "done"
              /\ playlistReq.res.status = 400
              /\ playlistReq.res.error = "Mood is required"
              /\ noCalls
         /\ (~Falsy(PlaylistToken) /\ ~Falsy(playlistReq.mood)) =>
              /\ (SearchCompleted /\ playlistReq.allTracks = << >>) =>
                   /\ playlistReq.pc = "done"
                   /\ playlistReq.res.status = 404
                   /\ playlistReq.creates = << >>
              /\ playlistReq.res.status = 404 =>
                   (SearchCompleted /\ playlistReq.allTracks = << >>)

\* the passing tracks of the searches that succeeded, in the order searched
RECURSIVE PassingOf(_)
PassingOf(searches) ==
    IF searches = << >> THEN << >>
    ELSE PassingOf(SubSeq(searches, 1, Len(searches) - 1))
         \o (IF Succeeded(searches, Len(searches))
             THEN FilterTracks(searches[Len(searches)].reply.data)
             ELSE << >>)

\* C16: whichever searches fail, the i-th search call is for the i-th planned
\* term and is issued once, one call at a time; the pool is at every moment
\* the passing tracks of the searches that succeeded so far; the search ends
\* when the last term is answered, and a request that searched fails only
\* for an empty pool or for two failed playlist calls.
C16_PartialFailureTolerated ==
    /\ Len(playlistReq.searches) <= Len(playlistReq.terms)
    /\ \A i \in DOMAIN playlistReq.searches :
         /\ playlistReq.searches[i].q = playlistReq.terms[i]
         /\ i < Len(playlistReq.searches) => playlistReq.searches[i].settled
    /\ playlistReq.pc = "searching" <=>
         (playlistReq.searches # << >>
          /\ ~playlistReq.searches[Len(playlistReq.searches)].settled)
    /\ (playlistReq.searches # << >> /\ playlistReq.pc # "searching") => SearchCompleted
    /\ playlistReq.allTracks = PassingOf(playlistReq.searches)
    /\ (playlistReq.searches # << >> /\ playlistReq.res.status = 500) =>
         (Len(playlistReq.creates) = 2 /\ Failed(playlistReq.creates, 2))

\* C16 happens: a search succeeded with passing tracks, a later one failed, a
\* later one again succeeded with passing tracks, all ten terms were searched
\* and the pool holds the tracks of both.
C16_Witness ==
    /\ SearchCompleted
    /\ Len(playlistReq.searches) = 10
    /\ Succeeded(playlistReq.searches, 1)
    /\ Failed(playlistReq.searches, 2)
    /\ Succeeded(playlistReq.searches, 6)
    /\ Failed(playlistReq.searches, 10)
    /\ Len(playlistReq.allTracks) >= 4
    /\ playlistReq.pc = "creating"

(***************************************************************************)
(* Properties of the challenge store and of the order of a token exchange, *)
(* checked under Spec.                                                     *)
(***************************************************************************)
\* the step is the completion of an authorization-URL request
UrlRequest == Len(urlResponses') = Len(urlResponses) + 1

\* the body that request sent
UrlSent == urlResponses'[Len(urlResponses')]

\* how old the record of key k is at time t
Age(store, k, t) == t - store[k].timestamp

\* the record of s leaves the store in this step because a token-exchange
\* request looked it up
Consumed(s) ==
    /\ Arrival
    /\ Arrived.state = s
    /\ Arrived.pkceData = pkceStore[s]

\* the record of s leaves the store in this step because the cleanup of an
\* authorization-URL request found it older than 15 minutes
Expired(s) ==
    /\ UrlRequest
    /\ Age(pkceStore, s, now') > FIFTEEN_MINUTES

C17_Step ==
    \A s \in IssuedStates :
      /\ s \notin DOMAIN pkceStore => s \notin DOMAIN pkceStore'
      /\ (s \in DOMAIN pkceStore /\ s \in DOMAIN pkceStore') =>
           pkceStore'[s] = pkceStore[s]
      /\ (s \in DOMAIN pkceStore /\ s \notin DOMAIN pkceStore') =>
           (Consumed(s) \/ Expired(s))

\* C17: the record of a state token stays as created until a token-exchange
\* lookup or an eviction removes it, and no step of any kind puts a record
\* for a state token back once its record is gone.
C17_RemovedStaysRemoved == [][C17_Step]_vars

\* C17 happens: a record was evicted, later authorization-URL requests did
\* not bring it back, and a token-exchange request naming its state was
\* turned away.
C17_Witness ==
    \E s \in IssuedStates, r \in DOMAIN tokenReqs :
      /\ s \notin DOMAIN pkceStore
      /\ \A j \in DOMAIN tokenReqs : ~(Found(j) /\ tokenReqs[j].state = s)
      /\ tokenReqs[r].state = s
      /\ WellFormed(r)
      /\ tokenReqs[r].res = StateError
      /\ Len(urlResponses) >= 2

C18_Step ==
    UrlRequest =>
      /\ \A k \in DOMAIN pkceStore :
           k \in DOMAIN pkceStore' <=> Age(pkceStore, k, now') <= FIFTEEN_MINUTES
      /\ \A k \in DOMAIN pkceStore' : Age(pkceStore', k, now') <= FIFTEEN_MINUTES

\* C18: the cleanup an authorization-URL request runs removes the records
\* created more than 15 minutes before its reading of the clock and keeps
\* every other record, so
\* the store that request leaves behind holds no record older than 15 minutes.
C18_EvictionExact == [][C18_Step]_vars

\* C18 happens: an authorization-URL request has just evicted a record older
\* than 15 minutes and kept one that is 15 minutes old to the millisecond.
C18_Witness ==
    /\ Len(urlResponses) = 3
    /\ tokenReqs = << >>
    /\ urlResponses[1].state \notin DOMAIN pkceStore
    /\ urlResponses[2].state \in DOMAIN pkceStore
    /\ Age(pkceStore, urlResponses[2].state, now) = FIFTEEN_MINUTES
    /\ urlResponses[3].state \in DOMAIN pkceStore
    /\ Age(pkceStore, urlResponses[3].state, now) = 0

C19_Step ==
    /\ UrlRequest =>
         /\ (DOMAIN pkceStore') \ (DOMAIN pkceStore) = {UrlSent.state}
         /\ pkceStore'[UrlSent.state].codeChallenge = UrlSent.code_challenge
         /\ pkceStore'[UrlSent.state].codeChallenge =
              generateCodeChallenge(pkceStore'[UrlSent.state].codeVerifier)
         /\ pkceStore'[UrlSent.state].timestamp = now
    /\ (Arrival /\ urlResponses # << >>
          /\ Arrived.state = urlResponses[Len(urlResponses)].state
          /\ ~Falsy(Arrived.code)
          /\ \A j \in DOMAIN tokenReqs : tokenReqs[j].state # Arrived.state) =>
         /\ Arrived.pkceData.codeVerifier # Undefined
         /\ Arrived.pkceData.codeChallenge = urlResponses[Len(urlResponses)].code_challenge

\* C19: an authorization-URL request adds one record and no more, under the
\* state it returns, holding the challenge of the returned URL, which is the
\* challenge derived from the stored verifier; its own cleanup leaves that
\* record in place, and the first token-exchange request that names the
\* state, arriving before any other authorization-URL request, obtains it.
\* It fails in a request whose second reading of the clock is more than
\* fifteen minutes after its first.
C19_OneRecordPerUrlRequest == [][C19_Step]_vars

\* the calls request r has issued to the token endpoint and to /me
TokenCallsOf(r) == {a \in DOMAIN tokenCalls : tokenCalls[a].req = r}

MeCallsOf(r) == {b \in DOMAIN meCalls : meCalls[b].req = r}

\* the token endpoint has answered request r with tokens
Exchanged(r) == tokenReqs[r].tokens.access_token # Undefined

\* C20: a request calls the token endpoint at most once, only after it has
\* removed the record of its state, and with that record's verifier; it calls
\* /me at most once, only after the token endpoint answered with tokens, and
\* with the access token of that answer; it responds only after the calls it
\* issued were answered, and with 200 and the tokens and user only when both
\* calls succeeded.
C20_ExchangeOrder ==
    \A r \in DOMAIN tokenReqs :
      /\ Cardinality(TokenCallsOf(r)) <= 1
      /\ Cardinality(MeCallsOf(r)) <= 1
      /\ TokenCallsOf(r) # {} <=> Found(r)
      /\ \A a \in TokenCallsOf(r) :
           /\ tokenCalls[a].code_verifier = tokenReqs[r].pkceData.codeVerifier
           /\ tokenCalls[a].code = tokenReqs[r].code
           /\ tokenReqs[r].state \notin DOMAIN pkceStore
      /\ MeCallsOf(r) # {} <=> Exchanged(r)
      /\ \A b \in MeCallsOf(r) :
           /\ TokenCallsOf(r) # {}
           /\ meCalls[b].bearer = tokenReqs[r].tokens.access_token
      /\ tokenReqs[r].pc = "awaitToken" =>
           (TokenCallsOf(r) # {} /\ MeCallsOf(r) = {})
      /\ tokenReqs[r].pc = "awaitMe" => MeCallsOf(r) # {}
      /\ tokenReqs[r].res # NoResponse <=> tokenReqs[r].pc = "done"
      /\ tokenReqs[r].res.status = 200 =>
           /\ Exchanged(r)
           /\ MeCallsOf(r) # {}
           /\ tokenReqs[r].caught = NoError
           /\ tokenReqs[r].res.access_token = tokenReqs[r].tokens.access_token
           /\ tokenReqs[r].res.refresh_token = tokenReqs[r].tokens.refresh_token
           /\ tokenReqs[r].res.expires_in = tokenReqs[r].tokens.expires_in
           /\ tokenReqs[r].res.user # Undefined

\* C20 happens: one request went through lookup, token call, /me call and
\* the 200 response, and another one's token call succeeded and its /me call
\* failed, so that it was answered with an error.
C20_Witness ==
    \E r, q \in DOMAIN tokenReqs :
      /\ tokenReqs[r].res.status = 200
      /\ tokenReqs[r].res.user # Undefined
      /\ Cardinality(TokenCallsOf(r)) = 1
      /\ Cardinality(MeCallsOf(r)) = 1
      /\ Exchanged(q)
      /\ tokenReqs[q].pc = "done"
      /\ tokenReqs[q].res.status # 200

(***************************************************************************)
(* Properties of the pool the track search returns, checked under          *)
(* SpecPlaylist.                                                           *)
(***************************************************************************)
\* how often a track occurs in a list
Occurrences(tracks, track) == Cardinality({i \in DOMAIN tracks : tracks[i] = track})

\* how often the searches that succeeded returned a track
RECURSIVE ReturnedBySearches(_, _)
ReturnedBySearches(searches, track) ==
    IF searches = << >> THEN 0
    ELSE ReturnedBySearches(SubSeq(searches, 1, Len(searches) - 1), track)
         + (IF Succeeded(searches, Len(searches))
            THEN Occurrences(searches[Len(searches)].reply.data, track)
            ELSE 0)

\* the tracks the searches that succeeded returned
ReturnedTracks ==
    UNION { Range(playlistReq.searches[k].reply.data) :
              k \in {j \in DOMAIN playlistReq.searches : Succeeded(playlistReq.searches, j)} }

\* enough plays or likes, and a duration strictly between 1.5 and 8 minutes
Suitable(track) ==
    /\ track.playback_count > 1000 \/ track.likes_count > 50
    /\ 90000 < track.duration
    /\ track.duration < 480000

\* C21: at every moment of the search every track of the pool is suitable,
\* and a suitable track is in the pool as many times as the searches that
\* succeeded returned it; a track that is not suitable is not in the pool.
C21_PoolIsSuitableTracks ==
    /\ \A i \in DOMAIN playlistReq.allTracks : Suitable(playlistReq.allTracks[i])
    /\ \A track \in ReturnedTracks :
         Occurrences(playlistReq.allTracks, track) =
           IF Suitable(track) THEN ReturnedBySearches(playlistReq.searches, track) ELSE 0

\* C21 happens: the searches returned a track at each bound of the duration,
\* a track at the bounds of plays and likes, and the same suitable track for
\* two terms; the pool holds that track twice and none of the others.
C21_Witness ==
    /\ SearchCompleted
    /\ \E track \in ReturnedTracks : track.duration = 480000
    /\ \E track \in ReturnedTracks : track.duration = 90000
    /\ \E track \in ReturnedTracks :
         track.playback_count = 1000 /\ track.likes_count = 50
    /\ \E track \in ReturnedTracks :
         track.duration = 90001 /\ Occurrences(playlistReq.allTracks, track) = 2
    /\ \E track \in ReturnedTracks :
         track.duration = 479999 /\ Occurrences(playlistReq.allTracks, track) >= 1

(***************************************************************************)
(* Artists in the output of the diversity selector, checked under          *)
(* SpecSelector.                                                           *)
(***************************************************************************)
\* the lower-cased artist username of a track; Undefined when it has none
LowerArtist(track) ==
    IF track.user.present /\ track.user.username # Undefined
    THEN ToLowerCase(track.user.username)
    ELSE Undefined

\* no two positions of the list hold tracks of the same artist
DistinctArtists(tracks) ==
    \A i, j \in DOMAIN tracks :
      LowerArtist(tracks[i]) = LowerArtist(tracks[j]) => i = j

\* the tracks the first pass admitted
FirstPassTracks == TracksAt(selection.tracks, selection.result.pass1)

\* C22: the second pass adds tracks only when the first pass admitted fewer
\* than the target; the tracks the first pass admitted have pairwise distinct
\* lower-cased artist usernames (tracks without username counting as one
\* artist); and when the first pass reached the target, so has the output.
C22_ArtistsDistinct ==
    selection.called =>
      /\ selection.result.ranPass2 <=> Len(selection.result.pass1) < selection.limit
      /\ selection.result.unique # selection.result.pass1 =>
           Len(selection.result.pass1) < selection.limit
      /\ SubSeq(selection.result.unique, 1, Len(selection.result.pass1))
           = selection.result.pass1
      /\ DistinctArtists(FirstPassTracks)
      /\ Len(selection.result.pass1) >= selection.limit =>
           DistinctArtists(SelectedTracks)

\* C22 happens: the pool holds two tracks whose artist differs by case only
\* and a third artist; the first pass admitted two tracks, which reached the
\* target, and both were returned.
C22_Witness ==
    /\ selection.called
    /\ selection.limit = 2
    /\ Len(selection.tracks) = 3
    /\ \E i, j \in DOMAIN selection.tracks :
         /\ i # j
         /\ selection.tracks[i].user.username # selection.tracks[j].user.username
         /\ LowerArtist(selection.tracks[i]) = LowerArtist(selection.tracks[j])
         /\ LowerArtist(selection.tracks[i]) # Undefined
         /\ LowerTitle(selection.tracks[i]) # LowerTitle(selection.tracks[j])
    /\ Len(selection.result.pass1) = 2
    /\ ~selection.result.ranPass2
    /\ Len(selection.result.out) = 2

(***************************************************************************)
(* The diversity selector on its own and inside a playlist request: a      *)
(* behaviour is one call of selectDiverseTracks with any pool and target,  *)
(* or one playlist request.                                                *)
(***************************************************************************)
\* selectDiverseTracks called on its own
SelectOnly ==
    /\ playlistReq.pc = "idle"
    /\ SelectTracks

\* a step of a playlist request
PlaylistOnly ==
    /\ ~selection.called
    /\ PlaylistNext

SelectorOrPlaylistNext ==
    \/ SelectOnly
    \/ PlaylistOnly

SpecSelectorOrPlaylist == Init /\ [][SelectorOrPlaylistNext]_vars

\* C23: selectDiverseTracks returns at least one track for a pool that is not
\* empty and a target of at least 1; a playlist request whose pool is not
\* empty after the search selects at least one track, its JSON playlist call
\* carries the id of every selected track, and a 200 response lists at least
\* one track.
C23_NeverEmptySelection ==
    /\ (selection.called /\ selection.tracks # << >> /\ selection.limit >= 1) =>
         Len(selection.result.out) >= 1
    /\ (SearchCompleted /\ playlistReq.allTracks # << >>) =>
         /\ playlistReq.finalTracks # << >>
         /\ playlistReq.creates # << >>
         /\ Len(playlistReq.creates[1].tracks) = Len(playlistReq.finalTracks)
         /\ Len(playlistReq.creates[1].tracks) >= 1
    /\ playlistReq.res.status = 200 => Len(playlistReq.res.playlist.tracks) >= 1

\* C23 happens: one search of a request succeeded, with a single suitable
\* track, every other search failed, and the request created a playlist of
\* that one track and answered 200 with it.
C23_Witness ==
    /\ SearchCompleted
    /\ Len(playlistReq.allTracks) = 1
    /\ Len(playlistReq.creates) = 1
    /\ Len(playlistReq.creates[1].tracks) = 1
    /\ playlistReq.res.status = 200
    /\ Len(playlistReq.res.playlist.tracks) = 1

====
